---- MODULE Spec2Model ----
(***************************************************************************)
(* A model of the function-hosting service of src/src/main.rs: the         *)
(* registry of submitted functions, the per-function sqlite store, the     *)
(* three host bindings and the execution of a stored script.               *)
(*                                                                         *)
(* Text (function names, file names, JSON) is a sequence of code points.   *)
(* A script source is a sequence of instructions of an accumulator         *)
(* machine: the accumulator is the value of the expression evaluated last. *)
(***************************************************************************)
EXTENDS Integers, Sequences, FiniteSets, TLC

\* ------------------------------------------------------------------ bounds

\* Worker threads of the tokio runtime that poll the request handlers.
NumWorkers == 2

\* The largest number a script computes.
MaxNum == 2

\* The requests the service accepts in one run.
MaxRequests == 4

Workers == 1..NumWorkers

\* ------------------------------------------------------------------- text

\* ".db"
DbSuffix == <<46, 100, 98>>

\* "null"
NullText == <<110, 117, 108, 108>>

\* "error evaluating function: "
ErrorEvaluating ==
  << 101, 114, 114, 111, 114, 32, 101, 118, 97, 108, 117, 97, 116, 105, 110,
     103, 32, 102, 117, 110, 99, 116, 105, 111, 110, 58, 32 >>

\* "internal server error"
InternalText ==
  << 105, 110, 116, 101, 114, 110, 97, 108, 32, 115, 101, 114, 118, 101, 114,
     32, 101, 114, 114, 111, 114 >>

\* "Uncaught ": how the message of a JsError starts.
UncaughtText == << 85, 110, 99, 97, 117, 103, 104, 116, 32 >>

\* "SyntaxError": how the message of a source that does not parse starts.
SyntaxText == << 83, 121, 110, 116, 97, 120, 69, 114, 114, 111, 114 >>

\* "Error: ": how the text of the exception an op's error is thrown as
\* starts.
ErrorText == << 69, 114, 114, 111, 114, 58, 32 >>

\* "poisoned lock: another task failed inside": PoisonError's to_string().
PoisonText ==
  << 112, 111, 105, 115, 111, 110, 101, 100, 32, 108, 111, 99, 107, 58, 32,
     97, 110, 111, 116, 104, 101, 114, 32, 116, 97, 115, 107, 32, 102, 97,
     105, 108, 101, 100, 32, 105, 110, 115, 105, 100, 101 >>

\* "disk I/O error": the to_string() of a rusqlite::Error.
SqliteText ==
  << 100, 105, 115, 107, 32, 73, 47, 79, 32, 101, 114, 114, 111, 114 >>

\* "no": what a script throws.
ThrownText == << 110, 111 >>

\* The request paths clients send: "a", "B", "a1", "[".
Names == { <<97>>, <<66>>, <<97, 49>>, <<91>> }

Keys == {"x", "y"}

\* char::is_ascii_alphabetic
is_ascii_alphabetic(c) == (c >= 65 /\ c <= 90) \/ (c >= 97 /\ c <= 122)

\* The test with all in place of any: a name is refused only when none of
\* its characters is an ASCII letter.
NameRejectedAll(name) == \A i \in 1..Len(name) : ~is_ascii_alphabetic(name[i])

\* The test of FunctionName::from_request_parts: the name is refused when
\* any of its characters is not an ASCII letter.
NameRejected(name) == \E i \in 1..Len(name) : ~is_ascii_alphabetic(name[i])

\* One file for every function: the name left out of the file name.
DbFileShared(name) == DbSuffix

\* format!("{name}.db")
DbFile(name) == name \o DbSuffix

\* ----------------------------------------------------------- script values

Undefined == [t |-> "undefined"]
Null == [t |-> "null"]
Num(n) == [t |-> "num", n |-> n]

\* A value serde_v8::from_v8 returns an error for.
Unreadable == [t |-> "unreadable"]

\* What op_kv_get returns for a key with no row: Option::None.
None == <<>>

\* The decimal digits of a natural number.
RECURSIVE Digits(_)
Digits(n) == IF n < 10 THEN <<48 + n>> ELSE Digits(n \div 10) \o <<48 + (n % 10)>>

\* The number a sequence of decimal digits denotes.
RECURSIVE DigitsValue(_)
DigitsValue(s) ==
  IF Len(s) = 0 THEN 0
  ELSE 10 * DigitsValue(SubSeq(s, 1, Len(s) - 1)) + (s[Len(s)] - 48)

\* JSON.stringify of a script value (the bootstrap's set calls it).
JsonStringify(v) ==
  CASE v.t = "null" -> NullText
    [] v.t = "num" -> Digits(v.n)

\* JSON.parse of what op_kv_get returned (the bootstrap's get calls it);
\* None reaches the script as null, which JSON.parse reads as the text "null".
JsonParse(r) ==
  LET text == IF r = None THEN NullText ELSE r
  IN IF text = NullText THEN Null ELSE Num(DigitsValue(text))

\* The last value read as a string and serialised as one: the text in quotes.
ResultTextQuoted(v) ==
  CASE v.t = "undefined" -> NullText
    [] v.t = "null" -> NullText
    [] v.t = "num" -> <<34>> \o Digits(v.n) \o <<34>>

\* serde_v8::from_v8::<serde_json::Value> followed by to_string: the text
\* of the last value; undefined is read as JSON null.
ResultText(v) ==
  CASE v.t = "undefined" -> NullText
    [] v.t = "null" -> NullText
    [] v.t = "num" -> Digits(v.n)

\* The script's + 1: null counts as 0.
PlusOne(v) ==
  CASE v.t = "null" -> Num(1)
    [] v.t = "num" -> Num(v.n + 1)

\* ---------------------------------------------------------------- sources

Lit(n) == [op |-> "lit", n |-> n]
Get(k) == [op |-> "get", k |-> k]
Set(k) == [op |-> "set", k |-> k]
Add1 == [op |-> "add1"]
GLoad == [op |-> "gload"]
GStore == [op |-> "gstore"]
Throw(msg) == [op |-> "throw", msg |-> msg]
Catch == [op |-> "catch"]
Opaque == [op |-> "opaque"]
Bad == [op |-> "bad"]

\* set('x', 1); get('x') + 1
SrcExample == << Lit(1), Set("x"), Get("x"), Add1 >>

\* set('y', set('x', 0))
SrcOther == << Lit(0), Set("x"), Set("y") >>

\* globalThis.g = (globalThis.g ?? null) + 1; get('x')
SrcRead == << GLoad, Add1, GStore, Get("x") >>

Sources == { SrcExample, SrcOther, SrcRead }

\* set('x', 1); throw "no"; set('x', 2)
SrcThrow == << Lit(1), Set("x"), Throw(ThrownText), Lit(2), Set("x") >>

\* set('x', 2); )
SrcBad == << Lit(2), Set("x"), Bad >>

\* set('y', 0); a value that cannot be read back
SrcOpaque == << Lit(0), Set("y"), Opaque >>

\* try { get('x') } catch (e) { }; set('y', 1)
SrcCatch == << Get("x"), Catch, Lit(1), Set("y") >>

\* Every source taken to parse: the statements before the one that does not
\* parse are run.
ParsesAny(body) == TRUE

\* set('x', get('x') + 1)
SrcCounter == << Get("x"), Add1, Set("x") >>

\* A source V8 compiles: execute_script compiles the whole source before it
\* runs its first statement.
Parses(body) == \A i \in 1..Len(body) : body[i].op # "bad"

NoSource == <<>>

\* The requests clients send about the functions of names, with the sources
\* of sources: POST /fn/:name with a source, GET /fn/:name.
RequestsOf(names, sources) ==
  [kind : {"submit"}, name : names, body : sources]
    \cup [kind : {"execute"}, name : names, body : {NoSource}]

\* One function, "a", and every source.
Requests == RequestsOf({<<97>>}, Sources)

\* Two functions, "a" and "B", each with a source of its own.
RequestsTwo ==
  RequestsOf({<<97>>}, {SrcOther}) \cup RequestsOf({<<66>>}, {SrcExample})

\* Every name, the refused ones too, and one source.
RequestsNames == RequestsOf(Names, {SrcExample})

\* One function, "a", whose script counts.
RequestsCounter == RequestsOf({<<97>>}, {SrcCounter})

\* One function, "a", whose script has a catch clause.
RequestsFault == RequestsOf({<<97>>}, {SrcCatch})

\* One function, "a", and one source.
RequestsPoison == RequestsOf({<<97>>}, {SrcExample})

\* One function, "a", with a source that throws and one that does not.
RequestsThrow == RequestsOf({<<97>>}, {SrcThrow, SrcExample})

\* A function, "a", whose script fails, and a function, "B", whose script
\* does not.
RequestsFail ==
  RequestsOf({<<97>>}, {SrcThrow, SrcBad, SrcOpaque})
    \cup RequestsOf({<<66>>}, {SrcExample})

\* ------------------------------------------------------------------ state

VARIABLES
  menu,      \* the requests clients send in this run
  pc,        \* pc[w]: where worker thread w stands in the handler it polls
  req,       \* req[w]: the request worker w serves: kind, name, body
  resp,      \* resp[w]: the response of the handler, once it has returned
  registry,  \* AppState: function name -> (source, db handle)
  regLock,   \* the registry's Mutex: the worker holding it, or 0
  files,     \* the sqlite files: file name -> (has the kv table, its rows)
  refs,      \* refs[h]: strong count of the Arc of handle h (0: no such Arc)
  conn,      \* conn[h]: the file the Connection of handle h has open
  hlock,     \* hlock[h]: the worker holding the Mutex of handle h, or 0
  db,        \* db[w]: the handle worker w's handler owns (0: none)
  fnBody,    \* fnBody[w]: the source the lookup cloned
  tmpOld,    \* tmpOld[w]: the entry insert returned, a temporary (0: none)
  rt,        \* rt[w]: the JsRuntime of run_js: ip, acc, g (globalThis.g)
  written,   \* history: written[n][k], the value function n's set(k, v) wrote last
  submitted, \* history: submitted[n], the source of the last submit of n
  served,    \* the requests accepted so far
  poisoned,  \* the Mutexes a thread panicked holding: 0 (registry), handles
  hist       \* history: hist[w], what the invocation worker w runs has seen

vars == << menu, pc, req, resp, registry, regLock, files, refs, conn, hlock,
           db, fnBody, tmpOld, rt, written, submitted, hist, served, poisoned >>

\* A handle for every Arc that can be alive: one per registry entry and one
\* per handler.
Handles == 1..(Cardinality(Names) + NumWorkers)

NoConn == <<>>
Unset == [t |-> "unset"]
NoReq == [kind |-> "none", name |-> <<>>, body |-> <<>>]
NoResp == [status |-> 0, kind |-> "none", text |-> <<>>]
NoRt == [ip |-> 0, acc |-> Undefined, g |-> Undefined]
NoGot == [t |-> "none"]

\* The history of an invocation:
\*   src    the source the last submit of its name had stored at its lookup
\*   alone  no other invocation has written its file since it started
\*   iso    the runtime a script given the same op results has in a runtime
\*          nothing else ever touched (kept until the response is written)
\*   got    the get it evaluated last: the key, the value get returned and
\*          the value the function's last set of the key wrote
\*   raised the cause of the exception raised last into its script
NoHist ==
  [src |-> NoSource, alone |-> TRUE, iso |-> NoRt, got |-> NoGot,
   raised |-> "none"]
PristineRuntime == [ip |-> 1, acc |-> Undefined, g |-> Undefined]

EmptyKv == [k \in Keys |-> None]

InitWith(m) ==
  /\ menu = m
  /\ pc = [w \in Workers |-> "idle"]
  /\ req = [w \in Workers |-> NoReq]
  /\ resp = [w \in Workers |-> NoResp]
  /\ registry = << >>
  /\ regLock = 0
  /\ files = << >>
  /\ refs = [h \in Handles |-> 0]
  /\ conn = [h \in Handles |-> NoConn]
  /\ hlock = [h \in Handles |-> 0]
  /\ db = [w \in Workers |-> 0]
  /\ fnBody = [w \in Workers |-> NoSource]
  /\ tmpOld = [w \in Workers |-> 0]
  /\ rt = [w \in Workers |-> NoRt]
  /\ written = [n \in Names |-> [k \in Keys |-> Unset]]
  /\ submitted = [n \in Names |-> NoSource]
  /\ hist = [w \in Workers |-> NoHist]
  /\ served = 0
  /\ poisoned = {}

Init == InitWith(Requests)

InitTwo == InitWith(RequestsTwo)

InitNames == InitWith(RequestsNames)

InitThrow == InitWith(RequestsThrow)

InitFail == InitWith(RequestsFail)

InitPoison == InitWith(RequestsPoison)

InitFault == InitWith(RequestsFault)

InitCounter == InitWith(RequestsCounter)

\* ---------------------------------------------------------------- helpers

\* The registry's Mutex, among the handles' Mutexes 1, 2, ..
RegistryLock == 0

\* The poison flag never looked at: lock() gives the guard of a poisoned
\* Mutex like any other.
IsPoisonedNever(lock) == FALSE

\* Mutex::lock returns Err(PoisonError) when a thread panicked holding it.
IsPoisoned(lock) == lock \in poisoned

\* The map made anew by every insert: the entry of key is its only one.
MapInsertOnly(map, key, value) == [n \in {key} |-> value]

\* HashMap::insert: the entry of key is set, the others are kept.
MapInsert(map, key, value) ==
  [n \in DOMAIN map \cup {key} |-> IF n = key THEN value ELSE map[n]]

\* HashMap::get(&name).cloned(): the entry stored under name.
MapGet(map, name) == map[name]

\* Connection::open: the file is created, empty, when it does not exist.
OpenFile(fs, f) ==
  IF f \in DOMAIN fs THEN fs
  ELSE [g \in DOMAIN fs \cup {f} |->
          IF g = f THEN [table |-> FALSE, kv |-> EmptyKv] ELSE fs[g]]

\* The table made anew on every submit: drop table, create table.
CreateTableFresh(file) == [table |-> TRUE, kv |-> EmptyKv]

\* "create table if not exists kv (key unique, value)"
CreateTable(file) == [file EXCEPT !.table = TRUE]

\* "insert or ignore into kv ..": a key that has a row keeps it.
ReplaceIntoIgnore(file, key, value) ==
  IF file.kv[key] = None THEN [file EXCEPT !.kv[key] = value] ELSE file

\* The table rewritten with the one row: the other keys' rows are lost.
ReplaceIntoWipe(file, key, value) ==
  [file EXCEPT !.kv = [k \in Keys |-> IF k = key THEN value ELSE None]]

\* "replace into kv (key, value) values (?1, ?2)"
ReplaceInto(file, key, value) == [file EXCEPT !.kv[key] = value]

\* "select value from kv where key = ?1", query_row(..).optional()
SelectValue(file, key) == file.kv[key]

\* The Connection a new handle gets: the lowest handle with no Arc and no
\* open Connection.
FreeHandles == {h \in Handles : refs[h] = 0 /\ conn[h] = NoConn}
NewHandle == CHOOSE h \in FreeHandles : \A o \in FreeHandles : h <= o

\* One runtime for every invocation: the globals are those another worker's
\* invocation left.
JsRuntimeShared(w) ==
  [ip |-> 1, acc |-> Undefined,
   g |-> rt[CHOOSE o \in Workers : o # w].g]

\* JsRuntime::new(RuntimeOptions {..}): the runtime run_js builds.
JsRuntimeNew(w) == [ip |-> 1, acc |-> Undefined, g |-> Undefined]

\* The instructions that call no op.
LocalOps == {"lit", "add1", "gload", "gstore", "catch", "opaque"}

\* The runtime after an instruction that calls no op.
Evaluate(r, ins) ==
  CASE ins.op = "lit" -> [r EXCEPT !.acc = Num(ins.n), !.ip = r.ip + 1]
    [] ins.op = "add1" -> [r EXCEPT !.acc = PlusOne(r.acc), !.ip = r.ip + 1]
    [] ins.op = "gload" ->
         [r EXCEPT !.acc = IF r.g = Undefined THEN Null ELSE r.g, !.ip = r.ip + 1]
    [] ins.op = "gstore" -> [r EXCEPT !.g = r.acc, !.ip = r.ip + 1]
    [] ins.op = "catch" -> [r EXCEPT !.ip = r.ip + 1]
    [] ins.op = "opaque" -> [r EXCEPT !.acc = Unreadable, !.ip = r.ip + 1]

\* runtime.execute_script up to the next call of an op, or to the end of
\* the script: what the script computes in between touches the runtime only.
RECURSIVE Advance(_, _)
Advance(r, body) ==
  IF r.ip <= Len(body) /\ body[r.ip].op \in LocalOps
    THEN Advance(Evaluate(r, body[r.ip]), body)
    ELSE r

Respond(w, r) == resp' = [resp EXCEPT ![w] = r]
Goto(w, label) == pc' = [pc EXCEPT ![w] = label]

Ok200(text) == [status |-> 200, kind |-> "ok", text |-> text]
InvalidFunctionName == [status |-> 400, kind |-> "InvalidFunctionName", text |-> <<>>]

\* The lookup's None taken for an empty function: the answer of a script
\* that evaluated nothing.
UnknownFunctionAsEmpty == [status |-> 200, kind |-> "ok", text |-> NullText]

\* AppError::UnknownFunction(name), as into_response answers it.
UnknownFunction == [status |-> 400, kind |-> "UnknownFunction", text |-> <<>>]

\* The error execute_script returns for an exception no catch clause of the
\* script took: an anyhow::Error that holds a JsError.
JsError(msg) == [class |-> "JsError", detail |-> UncaughtText \o msg]

\* Every error of execute_script taken for an error of the runtime.
FromAnyhowOpaque(err) == [kind |-> "DenoError", detail |-> err.detail]

\* impl From<anyhow::Error> for AppError: downcast::<JsError>()
FromAnyhow(err) ==
  IF err.class = "JsError"
    THEN [kind |-> "JsError", detail |-> err.detail]
    ELSE [kind |-> "DenoError", detail |-> err.detail]

\* The request whose handler panicked: the task is dropped, no response.
NoResponse == [status |-> 0, kind |-> "panic", text |-> <<>>]

InternalServerError == [status |-> 500, kind |-> "internal", text |-> InternalText]

\* AppError::into_response for an error of run_js: the JsError is answered
\* with its text, every other error with "internal server error".
IntoResponse(e) ==
  IF e.kind = "JsError"
    THEN [status |-> 200, kind |-> "JsError", text |-> ErrorEvaluating \o e.detail]
    ELSE InternalServerError

\* The catch clause that takes an exception raised at instruction i of
\* body: the first one after i, 0 when there is none.
CatchAt(body, i) ==
  LET after == {j \in (i + 1)..Len(body) : body[j].op = "catch"}
  IN IF after = {} THEN 0 ELSE CHOOSE j \in after : \A l \in after : j <= l

\* run_js returns, by ? or at its end: the runtime is dropped, and with it
\* the Arc of the handle (the Arc that held the last reference drops the
\* Connection).
DropRuntime(w) ==
  /\ refs' = [refs EXCEPT ![db[w]] = @ - 1]
  /\ conn' = [conn EXCEPT ![db[w]] = IF refs[db[w]] = 1 THEN NoConn ELSE @]
  /\ db' = [db EXCEPT ![w] = 0]
  /\ rt' = [rt EXCEPT ![w] = NoRt]

\* An exception with message msg is raised at the instruction the script is
\* at. The catch clause after it takes it and the script runs on from there;
\* with none, execute_script returns the JsError and run_js returns it by ?.
Raise(w, cause, msg) ==
  LET c == CatchAt(fnBody[w], rt[w].ip)
  IN IF c # 0
       THEN /\ rt' = [rt EXCEPT ![w] =
                       Advance([@ EXCEPT !.acc = Undefined, !.ip = c + 1], fnBody[w])]
            /\ hist' = [hist EXCEPT
                 ![w].iso = Advance([@ EXCEPT !.acc = Undefined, !.ip = c + 1], fnBody[w]),
                 ![w].raised = cause,
                 ![w].got = NoGot]
            /\ Goto(w, "run")
            /\ UNCHANGED << resp, refs, conn, db >>
       ELSE /\ Respond(w, IntoResponse(FromAnyhow(JsError(msg))))
            /\ DropRuntime(w)
            /\ hist' = [hist EXCEPT ![w].raised = cause, ![w].got = NoGot]
            /\ Goto(w, "done")

\* ---------------------------------------------------------------- intake

\* A worker thread picks up a request and polls its handler, whose
\* extractors run first: FunctionName::from_request_parts refuses the name
\* or hands it to the handler.
Accept(w) ==
  /\ pc[w] = "idle"
  /\ served < MaxRequests
  /\ served' = served + 1
  /\ \E r \in menu :
       /\ req' = [req EXCEPT ![w] = r]
       /\ IF NameRejected(r.name)
            THEN /\ Respond(w, InvalidFunctionName)
                 /\ Goto(w, "done")
            ELSE /\ Goto(w, IF r.kind = "submit" THEN "submit_open" ELSE "exec_lock")
                 /\ UNCHANGED resp
  /\ UNCHANGED << menu, poisoned, registry, regLock, files, refs, conn, hlock, db,
                  fnBody, tmpOld, rt, written, submitted, hist >>

\* The response is written out; the worker thread is free again.
Reply(w) ==
  /\ pc[w] = "done"
  /\ Goto(w, "idle")
  /\ req' = [req EXCEPT ![w] = NoReq]
  /\ resp' = [resp EXCEPT ![w] = NoResp]
  /\ fnBody' = [fnBody EXCEPT ![w] = NoSource]
  /\ hist' = [hist EXCEPT ![w] = NoHist]
  /\ UNCHANGED << menu, poisoned, served, registry, regLock, files, refs, conn, hlock, db,
                  tmpOld, rt, written, submitted >>

\* ------------------------------------------------------- handle_fn_submit

\* let db = Connection::open(&db_file)?;
\* db.execute("create table if not exists kv (key unique, value)", [])?;
SubmitOpen(w) ==
  /\ pc[w] = "submit_open"
  /\ FreeHandles # {}
  /\ LET h == NewHandle
         f == DbFile(req[w].name)
         opened == OpenFile(files, f)
     IN /\ files' = [opened EXCEPT ![f] = CreateTable(opened[f])]
        /\ conn' = [conn EXCEPT ![h] = f]
        /\ refs' = [refs EXCEPT ![h] = 1]
        /\ db' = [db EXCEPT ![w] = h]
  /\ Goto(w, "submit_lock")
  /\ UNCHANGED << menu, poisoned, served, req, resp, registry, regLock, hlock, fnBody, tmpOld,
                  rt, written, submitted, hist >>

\* state.lock()?
SubmitLock(w) ==
  /\ pc[w] = "submit_lock"
  /\ regLock = 0
  /\ ~IsPoisoned(RegistryLock)
  /\ regLock' = w
  /\ Goto(w, "submit_insert")
  /\ UNCHANGED << menu, poisoned, served, req, resp, registry, files, refs, conn, hlock, db,
                  fnBody, tmpOld, rt, written, submitted, hist >>

\* .insert(name.clone(), (body, Arc::new(Mutex::new(db)))): the handle moves
\* into the map; insert returns the entry it replaced, a temporary that
\* lives, like the guard, to the end of the statement. With no entry
\* replaced the statement ends here: the guard is dropped, info!(..), Ok(()).
SubmitInsert(w) ==
  /\ pc[w] = "submit_insert"
  /\ LET name == req[w].name
         old == IF name \in DOMAIN registry THEN registry[name].db ELSE 0
     IN /\ registry' = MapInsert(registry, name,
                                 [source |-> req[w].body, db |-> db[w]])
        /\ submitted' = [submitted EXCEPT ![name] = req[w].body]
        /\ tmpOld' = [tmpOld EXCEPT ![w] = old]
        /\ IF old = 0
             THEN /\ regLock' = 0
                  /\ Respond(w, Ok200(<<>>))
                  /\ Goto(w, "done")
             ELSE /\ Goto(w, "submit_drop")
                  /\ UNCHANGED << regLock, resp >>
  /\ db' = [db EXCEPT ![w] = 0]
  /\ UNCHANGED << menu, poisoned, served, req, files, refs, conn, hlock,
                  fnBody, rt, written, hist >>

\* End of the insert statement: the replaced entry is dropped first (it was
\* created after the guard). Its Arc's count goes down by one. With other
\* references left the statement ends here: the guard is dropped, Ok(()).
\* The Arc that held the last reference goes on to drop the Connection.
SubmitDrop(w) ==
  /\ pc[w] = "submit_drop"
  /\ LET old == tmpOld[w]
     IN /\ refs' = [refs EXCEPT ![old] = refs[old] - 1]
        /\ IF refs[old] = 1
             THEN /\ Goto(w, "submit_close")
                  /\ UNCHANGED << tmpOld, regLock, resp >>
             ELSE /\ tmpOld' = [tmpOld EXCEPT ![w] = 0]
                  /\ regLock' = 0
                  /\ Respond(w, Ok200(<<>>))
                  /\ Goto(w, "done")
  /\ UNCHANGED << menu, poisoned, served, req, registry, files, conn, hlock, db,
                  fnBody, rt, written, submitted, hist >>

\* Connection::drop of the replaced entry: sqlite closes the file. Then the
\* guard is dropped; info!(..); Ok(())
SubmitClose(w) ==
  /\ pc[w] = "submit_close"
  /\ conn' = [conn EXCEPT ![tmpOld[w]] = NoConn]
  /\ tmpOld' = [tmpOld EXCEPT ![w] = 0]
  /\ regLock' = 0
  /\ Respond(w, Ok200(<<>>))
  /\ Goto(w, "done")
  /\ UNCHANGED << menu, poisoned, served, req, registry, files, refs, hlock, db,
                  fnBody, rt, written, submitted, hist >>

\* ------------------------------------------------------ handle_fn_execute

\* state.lock()?
ExecLock(w) ==
  /\ pc[w] = "exec_lock"
  /\ regLock = 0
  /\ ~IsPoisoned(RegistryLock)
  /\ regLock' = w
  /\ Goto(w, "exec_lookup")
  /\ UNCHANGED << menu, poisoned, served, req, resp, registry, files, refs, conn, hlock, db,
                  fnBody, tmpOld, rt, written, submitted, hist >>

\* .get(&name).cloned().ok_or_else(|| AppError::UnknownFunction(..))?
\* The source is copied and the Arc cloned; the guard is dropped at the end
\* of the statement, on both paths.
ExecLookup(w) ==
  /\ pc[w] = "exec_lookup"
  /\ regLock' = 0
  /\ IF req[w].name \in DOMAIN registry
       THEN LET entry == MapGet(registry, req[w].name)
            IN /\ fnBody' = [fnBody EXCEPT ![w] = entry.source]
               /\ db' = [db EXCEPT ![w] = entry.db]
               /\ refs' = [refs EXCEPT ![entry.db] = refs[entry.db] + 1]
               /\ hist' = [hist EXCEPT ![w].src = submitted[req[w].name]]
               /\ Goto(w, "run_new")
               /\ UNCHANGED resp
       ELSE /\ Respond(w, UnknownFunction)
            /\ Goto(w, "done")
            /\ UNCHANGED << fnBody, db, refs, hist >>
  /\ UNCHANGED << menu, poisoned, served, req, registry, files, conn, hlock, tmpOld, rt,
                  written, submitted >>

\* ----------------------------------------------------------------- run_js

\* The script read from the registry at every step, not from the copy the
\* lookup made: the instruction of the source registered now.
InstrLive(w) ==
  LET now == registry[req[w].name].source
  IN IF rt[w].ip <= Len(now) THEN now[rt[w].ip] ELSE fnBody[w][rt[w].ip]

\* The instruction the script is at.
Instr(w) == fnBody[w][rt[w].ip]
AtOp(w) ==
  /\ pc[w] = "run"
  /\ rt[w].ip <= Len(fnBody[w])
  /\ Instr(w).op \in {"get", "set"}

\* JsRuntime::new, the name and the handle put into its OpState, and
\* execute_script up to the script's first call of an op.
RunNew(w) ==
  /\ pc[w] = "run_new"
  /\ Parses(fnBody[w])
  /\ rt' = [rt EXCEPT ![w] = Advance(JsRuntimeNew(w), fnBody[w])]
  /\ hist' = [hist EXCEPT ![w].alone = TRUE,
                          ![w].iso = Advance(PristineRuntime, fnBody[w])]
  /\ Goto(w, "run")
  /\ UNCHANGED << menu, poisoned, served, req, resp, registry, regLock, files, refs, conn, hlock,
                  db, fnBody, tmpOld, written, submitted >>

\* op_kv_set / op_kv_get: state.borrow_mut::<DB>().lock()
KvLock(w) ==
  /\ AtOp(w)
  /\ hlock[db[w]] = 0
  /\ ~IsPoisoned(db[w])
  /\ hlock' = [hlock EXCEPT ![db[w]] = w]
  /\ Goto(w, "kv")
  /\ hist' = [hist EXCEPT ![w].got = NoGot]
  /\ UNCHANGED << menu, poisoned, served, req, resp, registry, regLock, files, refs, conn, db,
                  fnBody, tmpOld, rt, written, submitted >>

\* op_kv_get with the guard kept in the OpState: the lock is not released
\* when the op returns.
KvGetHolding(w) ==
  /\ pc[w] = "kv"
  /\ Instr(w).op = "get"
  /\ LET value == JsonParse(SelectValue(files[conn[db[w]]], Instr(w).k))
         next == Advance([rt[w] EXCEPT !.acc = value, !.ip = @ + 1], fnBody[w])
     IN /\ next.acc.t = "num" => next.acc.n <= MaxNum
        /\ rt' = [rt EXCEPT ![w] = next]
        /\ hist' = [hist EXCEPT ![w].iso = next]
  /\ Goto(w, "run")
  /\ UNCHANGED << menu, poisoned, served, req, resp, registry, regLock, files,
                  refs, conn, hlock, db, fnBody, tmpOld, written, submitted >>

\* op_kv_get: the select, the guard dropped on return; the bootstrap's get
\* parses what the op returned, and the script runs on to its next op.
KvGet(w) ==
  /\ pc[w] = "kv"
  /\ Instr(w).op = "get"
  /\ LET k == Instr(w).k
         result == SelectValue(files[conn[db[w]]], k)
         value == JsonParse(result)
         next == Advance([rt[w] EXCEPT !.acc = value, !.ip = @ + 1], fnBody[w])
     IN /\ next.acc.t = "num" => next.acc.n <= MaxNum
        /\ rt' = [rt EXCEPT ![w] = next]
        /\ hist' = [hist EXCEPT
             ![w].iso = Advance([@ EXCEPT !.acc = value, !.ip = @ + 1], fnBody[w]),
             ![w].got = [t |-> "got", k |-> k, value |-> value,
                         last |-> written[req[w].name][k]]]
  /\ hlock' = [hlock EXCEPT ![db[w]] = 0]
  /\ Goto(w, "run")
  /\ UNCHANGED << menu, poisoned, served, req, resp, registry, regLock, files, refs, conn, db,
                  fnBody, tmpOld, written, submitted >>

\* op_kv_set with the guard kept in the OpState: the lock is not released
\* when the op returns.
KvSetHolding(w) ==
  /\ pc[w] = "kv"
  /\ Instr(w).op = "set"
  /\ files' = [files EXCEPT ![conn[db[w]]] =
                 ReplaceInto(@, Instr(w).k, JsonStringify(rt[w].acc))]
  /\ written' = [written EXCEPT ![req[w].name][Instr(w).k] = rt[w].acc]
  /\ rt' = [rt EXCEPT ![w] = Advance([@ EXCEPT !.ip = @ + 1], fnBody[w])]
  /\ hist' = [hist EXCEPT ![w].iso = Advance([@ EXCEPT !.ip = @ + 1], fnBody[w])]
  /\ Goto(w, "run")
  /\ UNCHANGED << menu, poisoned, served, req, resp, registry, regLock, refs,
                  conn, hlock, db, fnBody, tmpOld, submitted >>

\* op_kv_set: the bootstrap's set passes JSON.stringify(value); the replace,
\* the guard dropped on return; set evaluates to value, and the script runs
\* on to its next op.
KvSet(w) ==
  /\ pc[w] = "kv"
  /\ Instr(w).op = "set"
  /\ LET k == Instr(w).k
         f == conn[db[w]]
     IN /\ files' = [files EXCEPT ![f] = ReplaceInto(files[f], k, JsonStringify(rt[w].acc))]
        /\ written' = [written EXCEPT ![req[w].name][k] = rt[w].acc]
        /\ rt' = [rt EXCEPT ![w] = Advance([@ EXCEPT !.ip = @ + 1], fnBody[w])]
        /\ hist' = [o \in Workers |->
             IF o = w
               THEN [hist[o] EXCEPT
                       !.iso = Advance([@ EXCEPT !.ip = @ + 1], fnBody[w])]
               ELSE IF db[o] # 0 /\ conn[db[o]] = f
                      THEN [hist[o] EXCEPT !.alone = FALSE]
                      ELSE hist[o]]
  /\ hlock' = [hlock EXCEPT ![db[w]] = 0]
  /\ Goto(w, "run")
  /\ UNCHANGED << menu, poisoned, served, req, resp, registry, regLock, refs, conn, db,
                  fnBody, tmpOld, submitted >>

\* The script has ended: the last value is converted and returned; the
\* runtime is dropped, and with it the Arc of the handle (the Arc that held
\* the last reference drops the Connection).
RunEnd(w) ==
  /\ pc[w] = "run"
  /\ rt[w].ip > Len(fnBody[w])
  /\ rt[w].acc # Unreadable
  /\ Respond(w, Ok200(ResultText(rt[w].acc)))
  /\ refs' = [refs EXCEPT ![db[w]] = @ - 1]
  /\ conn' = [conn EXCEPT ![db[w]] = IF refs[db[w]] = 1 THEN NoConn ELSE @]
  /\ db' = [db EXCEPT ![w] = 0]
  /\ rt' = [rt EXCEPT ![w] = NoRt]
  /\ hist' = [hist EXCEPT ![w].got = NoGot]
  /\ Goto(w, "done")
  /\ UNCHANGED << menu, poisoned, served, req, registry, regLock, files, hlock, fnBody, tmpOld,
                  written, submitted >>

\* JsRuntime::new, and execute_script of a source that does not parse: it
\* returns the JsError of the SyntaxError, no statement run.
RunParseError(w) ==
  /\ pc[w] = "run_new"
  /\ ~Parses(fnBody[w])
  /\ Respond(w, IntoResponse(FromAnyhow(JsError(SyntaxText))))
  /\ DropRuntime(w)
  /\ hist' = [hist EXCEPT ![w].raised = "parse"]
  /\ Goto(w, "done")
  /\ UNCHANGED << menu, poisoned, served, req, registry, regLock, files, hlock, fnBody,
                  tmpOld, written, submitted >>

\* The script has ended with a last value serde_v8::from_v8 returns an
\* error for: run_js returns it by ?, as AppError::V8SerialisationError.
RunEndUnreadable(w) ==
  /\ pc[w] = "run"
  /\ rt[w].ip > Len(fnBody[w])
  /\ rt[w].acc = Unreadable
  /\ Respond(w, IntoResponse([kind |-> "V8SerialisationError", detail |-> <<>>]))
  /\ DropRuntime(w)
  /\ hist' = [hist EXCEPT ![w].raised = "from_v8", ![w].got = NoGot]
  /\ Goto(w, "done")
  /\ UNCHANGED << menu, poisoned, served, req, registry, regLock, files, hlock, fnBody,
                  tmpOld, written, submitted >>

\* The script is at a throw statement.
RunThrow(w) ==
  /\ pc[w] = "run"
  /\ rt[w].ip <= Len(fnBody[w])
  /\ Instr(w).op = "throw"
  /\ Raise(w, "throw", Instr(w).msg)
  /\ UNCHANGED << menu, poisoned, served, req, registry, regLock, files, hlock, fnBody,
                  tmpOld, written, submitted >>

\* --------------------------------------------------------- storage faults

\* op_kv_get / op_kv_set: the statement fails; ? makes the rusqlite::Error
\* the op's error and drops the guard; the error is thrown into the script.
KvFault(w) ==
  /\ pc[w] = "kv"
  /\ hlock' = [hlock EXCEPT ![db[w]] = 0]
  /\ Raise(w, "storage", ErrorText \o SqliteText)
  /\ UNCHANGED << menu, poisoned, served, req, registry, regLock, files, fnBody,
                  tmpOld, written, submitted >>

\* ------------------------------------------------------- poisoned locks

\* The thread that holds the registry's guard panics: where the Connection
\* of the replaced entry is closed, when the close fails. Unwinding drops
\* the guard, which poisons the Mutex; the task ends with no response.
SubmitPanic(w) ==
  /\ pc[w] = "submit_close"
  /\ poisoned' = poisoned \cup {RegistryLock}
  /\ conn' = [conn EXCEPT ![tmpOld[w]] = NoConn]
  /\ tmpOld' = [tmpOld EXCEPT ![w] = 0]
  /\ regLock' = 0
  /\ Respond(w, NoResponse)
  /\ Goto(w, "done")
  /\ UNCHANGED << menu, served, req, registry, files, refs, hlock, db,
                  fnBody, rt, written, submitted, hist >>

\* The thread that holds a handle's guard panics in op_kv_get or op_kv_set,
\* its statement not run. The panic leaves the op through the frames of V8:
\* it unwinds them (the guard is dropped, which poisons the Mutex; the
\* runtime is dropped; the task ends with no response), or the process
\* aborts.
KvPanic(w) ==
  /\ pc[w] = "kv"
  /\ \/ /\ poisoned' = poisoned \cup {db[w]}
        /\ hlock' = [hlock EXCEPT ![db[w]] = 0]
        /\ DropRuntime(w)
        /\ Respond(w, NoResponse)
        /\ Goto(w, "done")
     \/ /\ pc' = [o \in Workers |-> "aborted"]
        /\ UNCHANGED << poisoned, hlock, refs, conn, db, rt, resp >>
  /\ UNCHANGED << menu, served, req, registry, regLock, files, fnBody, tmpOld,
                  written, submitted, hist >>

\* handle_fn_submit: state.lock()? of the poisoned registry returns
\* AppError::LockPoisoned; the guard inside the error and the Connection
\* just opened are dropped.
SubmitLockPoisoned(w) ==
  /\ pc[w] = "submit_lock"
  /\ regLock = 0
  /\ IsPoisoned(RegistryLock)
  /\ refs' = [refs EXCEPT ![db[w]] = 0]
  /\ conn' = [conn EXCEPT ![db[w]] = NoConn]
  /\ db' = [db EXCEPT ![w] = 0]
  /\ Respond(w, IntoResponse([kind |-> "LockPoisoned", detail |-> PoisonText]))
  /\ Goto(w, "done")
  /\ UNCHANGED << menu, poisoned, served, req, registry, regLock, files, hlock,
                  fnBody, tmpOld, rt, written, submitted, hist >>

\* handle_fn_execute: state.lock()? of the poisoned registry.
ExecLockPoisoned(w) ==
  /\ pc[w] = "exec_lock"
  /\ regLock = 0
  /\ IsPoisoned(RegistryLock)
  /\ Respond(w, IntoResponse([kind |-> "LockPoisoned", detail |-> PoisonText]))
  /\ Goto(w, "done")
  /\ UNCHANGED << menu, poisoned, served, req, registry, regLock, files, refs,
                  conn, hlock, db, fnBody, tmpOld, rt, written, submitted, hist >>

\* op_kv_set / op_kv_get: lock() of the poisoned handle; map_err makes the
\* PoisonError's text the op's error, which is thrown into the script.
KvLockPoisoned(w) ==
  /\ AtOp(w)
  /\ hlock[db[w]] = 0
  /\ IsPoisoned(db[w])
  /\ Raise(w, "poison", ErrorText \o PoisonText)
  /\ UNCHANGED << menu, poisoned, served, req, registry, regLock, files, hlock,
                  fnBody, tmpOld, written, submitted >>

\* ------------------------------------------------------------------- spec

Next ==
  \E w \in Workers :
    \/ Accept(w)
    \/ Reply(w)
    \/ SubmitOpen(w)
    \/ SubmitLock(w)
    \/ SubmitInsert(w)
    \/ SubmitDrop(w)
    \/ SubmitClose(w)
    \/ ExecLock(w)
    \/ ExecLookup(w)
    \/ RunNew(w)
    \/ KvLock(w)
    \/ KvGet(w)
    \/ KvSet(w)
    \/ RunEnd(w)

Spec == Init /\ [][Next]_vars

\* The same service, serving two functions.
SpecTwo == InitTwo /\ [][Next]_vars

\* The same service, sent every name.
SpecNames == InitNames /\ [][Next]_vars

\* The service with a script that throws.
NextThrow ==
  \/ Next
  \/ \E w \in Workers : RunThrow(w)

SpecThrow == InitThrow /\ [][NextThrow]_vars

\* The service with the scripts that fail: one that throws, one that does
\* not parse, one whose last value cannot be read.
NextFail ==
  \/ NextThrow
  \/ \E w \in Workers : RunParseError(w)
  \/ \E w \in Workers : RunEndUnreadable(w)

SpecFail == InitFail /\ [][NextFail]_vars

\* The service, serving a function that counts.
SpecCounter == InitCounter /\ [][Next]_vars

\* The service over a store whose statements can fail.
NextFault ==
  \/ Next
  \/ \E w \in Workers : KvFault(w)

SpecFault == InitFault /\ [][NextFault]_vars

\* The service with a thread that panics holding a lock.
NextPoison ==
  \/ Next
  \/ \E w \in Workers : SubmitPanic(w)
  \/ \E w \in Workers : KvPanic(w)
  \/ \E w \in Workers : SubmitLockPoisoned(w)
  \/ \E w \in Workers : ExecLockPoisoned(w)
  \/ \E w \in Workers : KvLockPoisoned(w)

SpecPoison == InitPoison /\ [][NextPoison]_vars

\* ----------------------------------------------------------------- claims

InRunJs(w) == pc[w] \in {"run_new", "run", "kv"}
InSubmit(w) ==
  pc[w] \in {"submit_open", "submit_lock", "submit_insert", "submit_drop",
             "submit_close"}
Returned(w) == pc[w] = "done" /\ req[w].kind = "execute" /\ resp[w].kind = "ok"

\* A source that reads no key before it has set it: what it evaluates to
\* does not depend on the store it starts with.
Closed(body) ==
  \A i \in 1..Len(body) :
    body[i].op = "get" => \E j \in 1..(i - 1) : body[j].op = "set" /\ body[j].k = body[i].k

\* The value of the last top-level expression of a source run alone: set
\* keeps the value under the key, get gives it back, null counts as 0.
RECURSIVE LastValue(_, _, _, _, _)
LastValue(body, i, acc, kv, g) ==
  IF i > Len(body) THEN acc
  ELSE LET ins == body[i]
       IN CASE ins.op = "lit" -> LastValue(body, i + 1, Num(ins.n), kv, g)
            [] ins.op = "add1" ->
                 LastValue(body, i + 1,
                           IF acc = Null THEN Num(1) ELSE Num(acc.n + 1), kv, g)
            [] ins.op = "set" ->
                 LastValue(body, i + 1, acc, [kv EXCEPT ![ins.k] = acc], g)
            [] ins.op = "get" ->
                 LastValue(body, i + 1,
                           IF kv[ins.k] = Unset THEN Null ELSE kv[ins.k], kv, g)
            [] ins.op = "gload" ->
                 LastValue(body, i + 1, IF g = Unset THEN Null ELSE g, kv, g)
            [] ins.op = "gstore" -> LastValue(body, i + 1, acc, kv, acc)

\* The canonical text of a value.
CanonicalText(v) == IF v = Null THEN NullText ELSE Digits(v.n)

\* C1: an execute that returns has run the source the last submit of its
\* name had stored when it looked the function up, and its response is the
\* canonical text of the value the script evaluated last (null when it
\* evaluated nothing). When no other invocation wrote the function's store
\* meanwhile and the source reads only keys it has set, that is the value of
\* the source's last top-level expression: "2" for set('x', 1); get('x') + 1.
C1_SubmitThenExecute ==
  \A w \in Workers :
    Returned(w) =>
      /\ fnBody[w] = hist[w].src
      /\ resp[w].text =
           (IF hist[w].iso.acc = Undefined THEN NullText
            ELSE CanonicalText(hist[w].iso.acc))
      /\ (hist[w].alone /\ Closed(fnBody[w])) =>
           resp[w].text =
             CanonicalText(LastValue(fnBody[w], 1, Null, [k \in Keys |-> Unset], Unset))
      /\ (hist[w].alone /\ fnBody[w] = SrcExample) => resp[w].text = <<50>>

C1_Witness ==
  \E w \in Workers :
    Returned(w) /\ hist[w].alone /\ fnBody[w] = SrcExample /\ resp[w].text = <<50>>

\* C2: a get returns the value the function's last set of the key wrote, in
\* this invocation or an earlier one, and null for a key never set.
C2_SetThenGet ==
  \A w \in Workers :
    hist[w].got.t = "got" =>
      hist[w].got.value =
        (IF hist[w].got.last = Unset THEN Null ELSE hist[w].got.last)

\* A get of an invocation whose source sets nothing returns a number.
C2_Witness ==
  \E w \in Workers :
    /\ hist[w].got.t = "got"
    /\ fnBody[w] = SrcRead
    /\ hist[w].got.value = Num(1)

\* C3: no step of a submit changes a row of a file that exists, and a
\* lookup copies the source the last submit of the name stored.
C3_Resubmit ==
  [][\A w \in Workers :
       /\ (InSubmit(w) /\ pc'[w] # pc[w]) =>
            \A f \in DOMAIN files : files'[f].kv = files[f].kv
       /\ (pc[w] = "submit_insert" /\ pc'[w] # pc[w]) =>
            registry'[req[w].name].source = req[w].body
       /\ (pc[w] = "exec_lookup" /\ pc'[w] = "run_new") =>
            fnBody'[w] = submitted[req[w].name]]_vars

\* A function that has a row is submitted again, with another source.
C3_Witness ==
  \E w \in Workers :
    /\ pc[w] = "submit_drop"
    /\ registry[req[w].name].source = SrcRead
    /\ files[DbFile(req[w].name)].kv["x"] = <<49>>

\* C4: every key of a function's store holds the text of the value the
\* function's last set of that key wrote, whole, and no row when none did.
C4_NoLostWrite ==
  \A n \in DOMAIN registry : \A k \in Keys :
    files[DbFile(n)].kv[k] =
      (IF written[n][k] = Unset THEN None ELSE CanonicalText(written[n][k]))

\* Two invocations of one function run at once, each has seen the other
\* write, and the writes to x and to y are both in the store.
C4_Witness ==
  \E w1, w2 \in Workers :
    /\ w1 # w2
    /\ InRunJs(w1) /\ InRunJs(w2)
    /\ fnBody[w1] = SrcExample /\ fnBody[w2] = SrcOther
    /\ ~hist[w1].alone /\ ~hist[w2].alone
    /\ files[DbFile(req[w1].name)].kv = [x |-> <<49>>, y |-> <<48>>]

\* C5: at most one statement against one function's store is in flight:
\* two workers that each hold a handle's lock, about to run their get or set,
\* are not at the same file.
C5_OneStatementPerStore ==
  \A w1, w2 \in Workers :
    (pc[w1] = "kv" /\ pc[w2] = "kv" /\ conn[db[w1]] = conn[db[w2]]) => w1 = w2

\* C6: the holder of the registry lock runs no script and does no storage
\* I/O: it is neither in run_js nor closing a Connection.
C6_RegistryLockBounded ==
  \A w \in Workers :
    regLock = w => ~InRunJs(w) /\ pc[w] # "submit_close"

\* C7: at every moment some worker thread of the request intake is not
\* inside run_js, so that a request can be accepted.
C7_IntakeNeverStalled == \E w \in Workers : ~InRunJs(w)

\* C8: the runtime of an invocation is at every step the runtime its script
\* has in a runtime nothing else ever touched.
C8_FreshRuntime ==
  \A w \in Workers : pc[w] \in {"run", "kv"} => rt[w] = hist[w].iso

\* Two invocations run at once and each has stored the global.
C8_Witness ==
  \E w1, w2 \in Workers :
    /\ w1 # w2
    /\ pc[w1] = "run" /\ pc[w2] = "run"
    /\ rt[w1].g = Num(1) /\ rt[w2].g = Num(1)

\* What a get of key k by an invocation of function n returns, in a state.
Stored(reg, cn, fs, n, k) == SelectValue(fs[cn[reg[n].db]], k)

\* C9: a step of a request about one function changes neither the source
\* another function has registered nor what a get of that function returns.
C9_NameIsolation ==
  [][\A w \in Workers :
       pc'[w] # pc[w] =>
         LET name == IF pc[w] = "idle" THEN req'[w].name ELSE req[w].name
         IN \A n \in DOMAIN registry \ {name} :
              /\ n \in DOMAIN registry'
              /\ registry'[n].source = registry[n].source
              /\ \A k \in Keys :
                   Stored(registry', conn', files', n, k)
                     = Stored(registry, conn, files, n, k)]_vars

\* Both functions are registered and their stores differ.
C9_Witness ==
  /\ DOMAIN registry = {<<97>>, <<66>>}
  /\ Stored(registry, conn, files, <<97>>, "x") = <<48>>
  /\ Stored(registry, conn, files, <<66>>, "x") = <<49>>

\* The names made of ASCII letters only.
OnlyAsciiLetters(name) ==
  \A i \in 1..Len(name) : name[i] \in (65..90) \cup (97..122)

\* C10: a submit whose name has a character that is no ASCII letter is
\* answered with the validation error, having taken no handle and no lock;
\* no registry entry, no file and no Connection is about such a name.
C10_InvalidNameRejected ==
  /\ \A w \in Workers :
       (req[w].kind = "submit" /\ ~OnlyAsciiLetters(req[w].name)) =>
         /\ pc[w] = "done"
         /\ resp[w] = InvalidFunctionName
         /\ db[w] = 0 /\ tmpOld[w] = 0 /\ regLock # w
  /\ \A n \in DOMAIN registry : OnlyAsciiLetters(n)
  /\ \A f \in DOMAIN files :
       \E n \in Names : OnlyAsciiLetters(n) /\ f = n \o DbSuffix
  /\ \A h \in Handles :
       conn[h] # NoConn => \E n \in Names : OnlyAsciiLetters(n) /\ conn[h] = n \o DbSuffix

\* A submit of "a1" is refused while a function is registered.
C10_Witness ==
  \E w \in Workers :
    /\ req[w] = [kind |-> "submit", name |-> <<97, 49>>, body |-> SrcExample]
    /\ pc[w] = "done"
    /\ registry # << >>

\* C11: an execute of a name with no registry entry is answered with the
\* unknown-function error, and no step of it, from its acceptance to its
\* answer, changes the registry, a file, a Connection, a handle or its lock,
\* or a runtime.
C11_UnknownFunctionNoEffect ==
  [][\A w \in Workers :
       (pc'[w] # pc[w] /\ req'[w].kind = "execute"
          /\ req'[w].name \notin DOMAIN registry) =>
         /\ pc[w] = "exec_lookup" =>
              /\ pc'[w] = "done"
              /\ resp'[w] = [status |-> 400, kind |-> "UnknownFunction", text |-> <<>>]
         /\ pc'[w] \in {"exec_lock", "exec_lookup", "done"}
         /\ UNCHANGED << registry, files, refs, conn, hlock, db, rt, fnBody >>]_vars

\* An execute of "B" is answered unknown function while "a" is registered
\* and has a row.
C11_Witness ==
  \E w \in Workers :
    /\ pc[w] = "done"
    /\ req[w] = [kind |-> "execute", name |-> <<66>>, body |-> NoSource]
    /\ resp[w].kind = "UnknownFunction"
    /\ <<97>> \in DOMAIN registry
    /\ files[DbFile(<<97>>)].kv["x"] # None

\* text has part somewhere in it.
Carries(text, part) ==
  \E i \in 1..(Len(text) - Len(part) + 1) :
    SubSeq(text, i, i + Len(part) - 1) = part

\* A source with no catch clause: what it throws, nothing takes.
NoCatch(body) == \A i \in 1..Len(body) : body[i].op # "catch"

\* C12: an invocation whose script has thrown, with no catch clause to take
\* it, has ended: its answer is the script error, whose text carries what
\* the script threw, and is neither a result nor the text of the value the
\* script had evaluated before the throw.
C12_UncaughtThrow ==
  \A w \in Workers :
    (hist[w].raised = "throw" /\ NoCatch(fnBody[w])) =>
      /\ pc[w] = "done"
      /\ resp[w].kind = "JsError"
      /\ Carries(resp[w].text, ThrownText)
      /\ resp[w].text # <<49>>
      /\ rt[w] = NoRt /\ db[w] = 0

\* An invocation of set('x', 1); throw "no"; set('x', 2) has ended with the
\* script error.
C12_Witness ==
  \E w \in Workers :
    /\ pc[w] = "done"
    /\ fnBody[w] = SrcThrow
    /\ hist[w].raised = "throw"
    /\ resp[w].text = ErrorEvaluating \o UncaughtText \o ThrownText

\* C13: a request that comes to take a lock a thread panicked holding gets
\* an error and never the guarded state. At the registry's lock its handler
\* returns the lock-poisoned error, answered as an internal error, and the
\* registry is as it was; at a handle's lock the op's error is raised into
\* the script (taken by a catch clause, or ending the invocation with the
\* script error that carries it), no statement is run against the store,
\* and the lock is not held. No such request ends the process: the one
\* step that does is the panic of the holder of a handle's lock.
C13_PoisonedLockReported ==
  [][\A w \in Workers :
       ((pc'[w] # pc[w] \/ rt'[w] # rt[w]) /\ pc'[w] # "aborted") =>
         /\ (pc[w] \in {"submit_lock", "exec_lock"} /\ RegistryLock \in poisoned) =>
              /\ pc'[w] = "done"
              /\ resp'[w] = [status |-> 500, kind |-> "internal", text |-> InternalText]
              /\ regLock' = 0
              /\ registry' = registry
         /\ (pc[w] = "run" /\ rt[w].ip <= Len(fnBody[w])
               /\ fnBody[w][rt[w].ip].op \in {"get", "set"} /\ db[w] \in poisoned) =>
              /\ hist'[w].raised = "poison"
              /\ pc'[w] \in {"run", "done"}
              /\ pc'[w] = "done" =>
                   (resp'[w].kind = "JsError" /\ Carries(resp'[w].text, PoisonText))
              /\ hlock' = hlock
              /\ files' = files]_vars

\* The registry's lock is poisoned, and a request that came to take it has
\* been answered with the internal error.
C13_Witness ==
  \E w \in Workers :
    /\ RegistryLock \in poisoned
    /\ pc[w] = "done"
    /\ resp[w] = InternalServerError

\* A handle's lock is poisoned, and an invocation that came to take it has
\* ended with the error raised into its script.
C13_WitnessHandle ==
  \E w \in Workers :
    /\ pc[w] = "done"
    /\ hist[w].raised = "poison"
    /\ Carries(resp[w].text, PoisonText)

\* C14: an invocation in which a get or a set has failed in the store has
\* ended, with the error of the store (which is answered as an internal
\* error): it runs no statement and calls no op after the failed call.
C14_StorageFaultAborts ==
  \A w \in Workers :
    hist[w].raised = "storage" =>
      /\ pc[w] = "done"
      /\ resp[w] = IntoResponse([kind |-> "SqliteError", detail |-> SqliteText])

\* C15: the answer of a request in which an error other than a refused
\* name, an unknown function or a throw of the script arose (an error of
\* the store or a poisoned lock inside get or set, a last value that cannot
\* be read) is, when it is an error, the internal error, and carries
\* nothing of the text of what arose.
C15_OpaqueInternalFailure ==
  \A w \in Workers :
    (pc[w] = "done" /\ hist[w].raised \in {"storage", "poison", "from_v8"}
       /\ resp[w].kind # "ok") =>
      /\ resp[w] = InternalServerError
      /\ ~Carries(resp[w].text, SqliteText)
      /\ ~Carries(resp[w].text, PoisonText)

\* The step in which the invocation of worker w ends in a failure of its
\* script: a source that does not parse, an uncaught throw, a last value
\* that cannot be read.
Fails(w) ==
  /\ pc[w] \in {"run_new", "run"}
  /\ pc'[w] = "done"
  /\ resp'[w].kind # "ok"
  /\ hist'[w].raised \in {"parse", "throw", "from_v8"}

\* C16: the step in which an invocation fails changes neither the registry
\* nor a file nor another worker's request, and what follows it is the
\* answer alone: the invocation is not run again. No statement of a source
\* that does not parse is run. Of all the steps of an invocation only a set
\* changes a file: the file of its own function, by the one row of its key,
\* whole. So the store of a failed invocation holds the sets that completed
\* before the failure, and no other function's store has changed.
C16_FailureFrame ==
  [][\A w \in Workers :
       /\ Fails(w) =>
            /\ registry' = registry
            /\ files' = files
            /\ rt'[w] = NoRt
            /\ \A o \in Workers \ {w} :
                 pc'[o] = pc[o] /\ rt'[o] = rt[o] /\ resp'[o] = resp[o]
       /\ (pc[w] = "done" /\ pc'[w] # pc[w]) => pc'[w] = "idle"
       /\ pc'[w] \in {"run", "kv"} =>
            \A i \in 1..Len(fnBody'[w]) : fnBody'[w][i].op # "bad"
       /\ (InRunJs(w) /\ (pc'[w] # pc[w] \/ rt'[w] # rt[w])) =>
            IF pc[w] = "kv" /\ fnBody[w][rt[w].ip].op = "set"
              THEN /\ conn[db[w]] = DbFile(req[w].name)
                   /\ files' = [files EXCEPT
                        ![DbFile(req[w].name)].kv[fnBody[w][rt[w].ip].k] =
                          CanonicalText(rt[w].acc)]
              ELSE files' = files]_vars

\* An invocation of set('x', 1); throw "no"; set('x', 2) has failed: the
\* store of "a" has the first set and not the second, and the store of "B"
\* has what the invocation of "B" set.
C16_Witness ==
  \E w \in Workers :
    /\ pc[w] = "done"
    /\ fnBody[w] = SrcThrow
    /\ hist[w].raised = "throw"
    /\ files[DbFile(<<97>>)].kv = [x |-> <<49>>, y |-> None]
    /\ <<66>> \in DOMAIN registry
    /\ files[DbFile(<<66>>)].kv = [x |-> <<49>>, y |-> None]

\* C17: no step removes a name from the registry; the names in it are made
\* of ASCII letters only; and the unknown-function answer is given only to
\* an execute of a name no submit has stored yet, so never after a submit
\* of the name has succeeded.
C17_RegistryOnlyGrows ==
  [][/\ DOMAIN registry \subseteq DOMAIN registry'
     /\ \A n \in DOMAIN registry' : OnlyAsciiLetters(n)
     /\ \A n \in Names : submitted[n] # NoSource => n \in DOMAIN registry'
     /\ \A w \in Workers :
          (resp'[w].kind = "UnknownFunction" /\ resp[w].kind # "UnknownFunction") =>
            /\ req[w].kind = "execute"
            /\ submitted[req[w].name] = NoSource]_vars

\* Both "a" and "B" are registered, and an execute of "a" has returned.
C17_Witness ==
  /\ DOMAIN registry = {<<97>>, <<66>>}
  /\ \E w \in Workers : Returned(w) /\ req[w].name = <<97>>

\* C18: the lookup copies the source registered at that instant, which is
\* the source of the last submit of the name that completed its insert; the
\* invocation keeps that source to its end whatever is submitted meanwhile,
\* and each get or set it runs is the one that source has at that place: a
\* set writes that key of the function's file, a get writes nothing.
C18_SourceAtLookup ==
  [][\A w \in Workers :
       /\ (pc[w] = "exec_lookup" /\ pc'[w] = "run_new") =>
            /\ fnBody'[w] = registry[req[w].name].source
            /\ fnBody'[w] = submitted[req[w].name]
            /\ hist'[w].src = fnBody'[w]
       /\ (InRunJs(w) /\ pc'[w] # "idle") =>
            fnBody'[w] = fnBody[w] /\ hist'[w].src = hist[w].src
       /\ (pc[w] = "kv" /\ pc'[w] # "kv") =>
            LET ins == hist[w].src[rt[w].ip]
            IN /\ ins.op \in {"get", "set"}
               /\ ins.op = "get" => files' = files
               /\ ins.op = "set" =>
                    files' = [files EXCEPT
                      ![conn[db[w]]].kv[ins.k] = JsonStringify(rt[w].acc)]]_vars

\* An invocation that looked "a" up before a submit of another source runs
\* the old source, and one that looked it up after runs the new one.
C18_Witness ==
  \E w1, w2 \in Workers :
    /\ pc[w1] = "kv" /\ pc[w2] = "kv"
    /\ fnBody[w1] = SrcExample
    /\ fnBody[w2] = SrcOther
    /\ registry[<<97>>].source = SrcOther

\* The locks worker w holds: 0 for the registry's, h for handle h's.
Held(w) ==
  {l \in {RegistryLock} : regLock = w} \cup {h \in Handles : hlock[h] = w}

\* A step of the handler worker w polls.
Step(w) ==
  \/ Reply(w) \/ SubmitOpen(w) \/ SubmitLock(w) \/ SubmitInsert(w)
  \/ SubmitDrop(w) \/ SubmitClose(w) \/ ExecLock(w) \/ ExecLookup(w)
  \/ RunNew(w) \/ KvLock(w) \/ KvGet(w) \/ KvSet(w) \/ RunEnd(w)

\* C19: no worker holds two locks; the holder of a lock stands where its
\* next steps, to the release, wait for no lock and run no script (inside
\* the insert or the lookup statement, inside one op), and can take its
\* next step; so while a request is in flight some handler can step.
C19_NoDeadlock ==
  /\ \A w \in Workers : Cardinality(Held(w)) <= 1
  /\ \A w \in Workers :
       /\ regLock = w =>
            pc[w] \in {"submit_insert", "submit_drop", "submit_close", "exec_lookup"}
       /\ (\E h \in Handles : hlock[h] = w) => pc[w] = "kv"
       /\ Held(w) # {} => ENABLED Step(w)
  /\ (\E w \in Workers : pc[w] # "idle") => \E w \in Workers : ENABLED Step(w)

\* An invocation holds its handle's lock, inside an op, while another
\* invocation of the function waits for that lock.
C19_Witness ==
  \E w1, w2 \in Workers :
    /\ w1 # w2
    /\ pc[w1] = "kv" /\ hlock[db[w1]] = w1
    /\ AtOp(w2) /\ db[w2] = db[w1]
    /\ ~ENABLED KvLock(w2)

\* C20: a handle's lock is held inside one get or one set and at no other
\* place of an invocation: between the get and the set of
\* set('x', get('x') + 1) the invocation holds no lock. (C20_Witness is the
\* state that follows from it: two invocations have both completed and the
\* counter has gone up by 1.)
C20_LockPerStatement ==
  \A w \in Workers :
    /\ pc[w] = "kv" =>
         /\ hlock[db[w]] = w
         /\ Instr(w).op \in {"get", "set"}
    /\ pc[w] # "kv" => \A h \in Handles : hlock[h] # w

\* Two invocations of set('x', get('x') + 1) on a store with no x have both
\* returned, each answering 1, and x is 1.
C20_Witness ==
  \E w1, w2 \in Workers :
    /\ w1 # w2
    /\ Returned(w1) /\ Returned(w2)
    /\ fnBody[w1] = SrcCounter /\ fnBody[w2] = SrcCounter
    /\ resp[w1].text = <<49>> /\ resp[w2].text = <<49>>
    /\ files[DbFile(<<97>>)].kv["x"] = <<49>>
    /\ served = 3

====
